---- MODULE Spec2Model ----
(***************************************************************************)
(* Model of DirDL (src/script.js): a browser page that lists a GitHub      *)
(* directory through the contents API, fetches every file, packs them in   *)
(* a ZIP archive and saves it.                                             *)
(*                                                                         *)
(* Strings that the code takes apart (URLs, paths) are sequences of atoms: *)
(* the atom "/" is one slash, every other atom is a piece of text without  *)
(* a slash.  An optional string (null or a string) is a sequence of length *)
(* 0 or 1.  A template string is the tuple of its pieces.                  *)
(***************************************************************************)
EXTENDS Integers, Sequences, FiniteSets, TLC

VARIABLES
  storage,             \* localStorage["DIR_DL_TOKEN"]: <<>> or <<token>>
  DIR_DL_TOKEN,        \* the global token: <<>> (null) or <<token>>
  isTokenValid,        \* the flag of the startup loop
  phase,               \* "prompt": in the startup loop; "ready": listeners registered
  resp,                \* the answer to the last window.prompt: <<>> or <<string>>
  alerted,             \* the last iteration of the startup loop showed the alert
  sessionToken,        \* DIR_DL_TOKEN when the startup loop was left
  reloadPending,       \* location.reload() was called, the page is not yet torn down
  logText,             \* the status line: [text, type]
  disabled,            \* downloadBtn.disabled
  pc,                  \* where downloadContent is suspended
  url,                 \* inputField.value.trim() of the last invocation
  target,              \* the result of parseGitHubUrl in downloadContent
  stack,               \* the suspended calls of fetchDirectoryContents
  allFiles,            \* the accumulator of fetchDirectoryContents
  files,               \* the list handed to createAndDownloadZip
  idx,                 \* position of the for-of loop over files
  zip,                 \* the entries of the JSZip object
  successfulDownloads,
  downloadedCount,
  folderName,
  JSZipLoaded,         \* typeof JSZip !== 'undefined'
  generated,           \* zip.generateAsync was called in this invocation
  saved,               \* the link.download names clicked in this invocation
  requests,            \* the network requests of this invocation, in order
  listed               \* what the previous call of fetchDirectoryContents from
                       \* downloadContent returned, <<>> before the first return

vars == <<storage, DIR_DL_TOKEN, isTokenValid, phase, resp, alerted, sessionToken,
          reloadPending, logText, disabled, pc, url, target, stack, allFiles, files,
          idx, zip, successfulDownloads, downloadedCount, folderName,
          JSZipLoaded, generated, saved, requests, listed>>

tokenVars == <<storage, DIR_DL_TOKEN, isTokenValid, phase, resp, alerted,
               sessionToken, reloadPending>>

(***************************************************************************)
(* The token prompt                                                        *)
(***************************************************************************)
\* What the user may type in window.prompt (<<>> is Cancel).
PromptInputs ==
  { <<>>, <<"">>, <<"short">>, <<"0123456789">>, <<"ghp_tokenAA">>, <<"ghp_tokenBBB">> }

\* What an earlier session may have left in localStorage.
StoredTokens == { <<>>, <<"ghp_stored01">> }

TokenRejectedOffByOne(r) == r = <<>> \/ r[1] = "" \/ Len(r[1]) < 10

\* line 8: !resp || resp.length <= 10
TokenRejected(r) == r = <<>> \/ r[1] = "" \/ Len(r[1]) <= 10

\* line 1: localStorage.getItem("DIR_DL_TOKEN") || null
LoadToken(st) == IF st = <<>> \/ st[1] = "" THEN <<>> ELSE st

(***************************************************************************)
(* parseGitHubUrl                                                          *)
(***************************************************************************)
Slash == "/"

\* The index of the last atom of the longest slash-free run that starts at
\* i, or i - 1 when there is none: what a greedy [^\/]+ takes at i.
RunEnd(u, i) ==
  LET stops == { j \in i..Len(u) : u[j] = Slash }
  IN  IF stops = {} THEN Len(u)
      ELSE (CHOOSE j \in stops : \A k \in stops : j <= k) - 1

\* line 64: url.replace(/\/$/, '')
StripTrailingSlash(u) ==
  IF Len(u) > 0 /\ u[Len(u)] = Slash THEN SubSeq(u, 1, Len(u) - 1) ELSE u

\* github\.com\/([^\/]+)\/([^\/]+) tried at position i: the ends of the two
\* groups, <<0, 0>> when the prefix does not match there.
OwnerRepoAt(u, i) ==
  IF i + 1 <= Len(u) /\ u[i] = "github.com" /\ u[i + 1] = Slash
  THEN LET oe == RunEnd(u, i + 2)
       IN  IF oe >= i + 2 /\ oe + 1 <= Len(u) /\ u[oe + 1] = Slash
           THEN LET re == RunEnd(u, oe + 2)
                IN  IF re >= oe + 2 THEN <<oe, re>> ELSE <<0, 0>>
           ELSE <<0, 0>>
  ELSE <<0, 0>>

\* line 66: /github\.com\/([^\/]+)\/([^\/]+)$/ matches at i
RepoMatchAt(u, i) == OwnerRepoAt(u, i)[2] = Len(u) /\ Len(u) > 0

\* line 74: /github\.com\/([^\/]+)\/([^\/]+)\/tree\/[^\/]+\/?(.*)/ matches at i
DirMatchAt(u, i) ==
  LET re == OwnerRepoAt(u, i)[2]
  IN  /\ re > 0
      /\ re + 3 <= Len(u)
      /\ u[re + 1] = Slash /\ u[re + 2] = "tree" /\ u[re + 3] = Slash
      /\ RunEnd(u, re + 4) >= re + 4

\* String.prototype.match returns the leftmost match.
Leftmost(S) == CHOOSE i \in S : \A k \in S : i <= k

parseGitHubUrlNoThrow(url0) ==
  [ok |-> TRUE, owner |-> <<>>, repo |-> <<>>, path |-> StripTrailingSlash(url0),
   isRepo |-> FALSE]

\* lines 63-83.  ok = FALSE stands for the thrown Error.
parseGitHubUrl(url0) ==
  LET str == StripTrailingSlash(url0)
      rs == { i \in 1..Len(str) : RepoMatchAt(str, i) }
      ds == { i \in 1..Len(str) : DirMatchAt(str, i) }
  IN  IF rs # {}
      THEN LET i  == Leftmost(rs)
               g  == OwnerRepoAt(str, i)
           IN  [ok |-> TRUE, owner |-> SubSeq(str, i + 2, g[1]),
                repo |-> SubSeq(str, g[1] + 2, g[2]), path |-> <<>>, isRepo |-> TRUE]
      ELSE IF ds # {}
      THEN LET i  == Leftmost(ds)
               g  == OwnerRepoAt(str, i)
               be == RunEnd(str, g[2] + 4)            \* end of the branch
               ps == IF be + 1 <= Len(str) /\ str[be + 1] = Slash
                     THEN be + 2 ELSE be + 1          \* after \/?
           IN  [ok |-> TRUE, owner |-> SubSeq(str, i + 2, g[1]),
                repo |-> SubSeq(str, g[1] + 2, g[2]),
                path |-> SubSeq(str, ps, Len(str)), isRepo |-> FALSE]
      ELSE [ok |-> FALSE, owner |-> <<>>, repo |-> <<>>, path |-> <<>>, isRepo |-> FALSE]

InvalidUrlMessage ==
  "Invalid GitHub URL. Please enter a repository URL (github.com/owner/repo) or directory URL (github.com/owner/repo/tree/branch/path)"

LastSegmentTakesFirst(path) ==
  LET slashes == { j \in 1..Len(path) : path[j] = Slash }
      to      == IF slashes = {} THEN Len(path)
                 ELSE (CHOOSE j \in slashes : \A k \in slashes : j <= k) - 1
      seg     == SubSeq(path, 1, to)
  IN  IF seg = <<>> THEN <<"root">> ELSE seg

\* line 50: path.split('/').pop() || 'root'
LastSegment(path) ==
  LET slashes == { j \in 1..Len(path) : path[j] = Slash }
      from    == IF slashes = {} THEN 1
                 ELSE (CHOOSE j \in slashes : \A k \in slashes : k <= j) + 1
      seg     == SubSeq(path, from, Len(path))
  IN  IF seg = <<>> THEN <<"root">> ELSE seg

\* line 50
FolderName(t) == IF t.isRepo THEN t.repo ELSE t.repo \o <<"-">> \o LastSegment(t.path)

(***************************************************************************)
(* The inputs typed in the URL field (after trim)                          *)
(***************************************************************************)
Base == <<"https:", "/", "/", "github.com", "/", "acme", "/", "widgets">>

Inputs ==
  { <<>>,
    Base,
    Base \o <<"/">>,
    Base \o <<"/", "/">>,
    Base \o <<"/", "tree", "/", "main">>,
    Base \o <<"/", "tree", "/", "main", "/", "src", "/", "utils">>,
    Base \o <<"/", "tree", "/", "main", "/", "src", "/">>,
    Base \o <<"/", "tree", "/", "main", "/", "docs">>,
    Base \o <<"/", "tree", "/", "main", "/", "README">>,
    Base \o <<"/", "tree", "/", "main", "/", "missing">>,
    Base \o <<"/", "tree", "/", "main", "/", "vendor", "/", "github.com", "/", "spf13",
              "/", "cobra">>,
    Base \o <<"/", "tree">>,
    Base \o <<"/", "blob", "/", "main", "/", "README">>,
    <<"https:", "/", "/", "gitlab.com", "/", "acme", "/", "widgets">>,
    <<"github.com", "/", "acme">>,
    <<"not a url">> }

(***************************************************************************)
(* The remote repository acme/widgets                                      *)
(***************************************************************************)
Item(t, p, n, sha, sz) == [type |-> t, path |-> p, name |-> n, sha |-> sha, size |-> sz]

P_src     == <<"src">>
P_utils   == <<"src", "/", "utils">>
P_docs    == <<"docs">>
P_readme  == <<"README">>
P_a       == <<"src", "/", "a.js">>
P_init    == <<"src", "/", "utils", "/", "__init__.py">>
P_u       == <<"src", "/", "utils", "/", "u.js">>

RemoteDirs == { <<>>, P_src, P_utils, P_docs }
RemoteFiles == { P_readme, P_a, P_init, P_u }

\* The array the contents API returns for a directory.
RemoteListing(p) ==
  CASE p = <<>>    -> << Item("dir", P_src, "src", "s1", 0),
                         Item("submodule", <<"vendor">>, "vendor", "s2", 0),
                         Item("file", P_readme, "README", "s3", 4),
                         Item("dir", P_docs, "docs", "s4", 0) >>
    [] p = P_src   -> << Item("file", P_a, "a.js", "s5", 1),
                         Item("dir", P_utils, "utils", "s6", 0),
                         Item("symlink", <<"src", "/", "link">>, "link", "s7", 3) >>
    [] p = P_utils -> << Item("file", P_init, "__init__.py", "s8", 0),
                         Item("file", P_u, "u.js", "s9", 1) >>
    [] p = P_docs  -> << Item("symlink", <<"docs", "/", "latest">>, "latest", "s10", 6) >>
    [] OTHER       -> << >>

\* The base64 "content" field the contents API returns for a file, as the
\* sequence of its 4-character groups and newlines.
RemoteContent(p) ==
  CASE p = P_readme -> << "QUJD", "\n", "RA==", "\n" >>
    [] p = P_a      -> << "QQ==" >>
    [] p = P_init   -> << >>
    [] p = P_u      -> << "Qg==", "\n" >>
    [] OTHER        -> << >>

IsAcmeWidgets(owner, repo) == owner = <<"acme">> /\ repo = <<"widgets">>

\* The statuses the server may answer a listing request with.
ListStatuses(owner, repo, p) ==
  IF IsAcmeWidgets(owner, repo) /\ (p \in RemoteDirs \/ p \in RemoteFiles)
  THEN {200, 401, 404, 500} ELSE {401, 404, 500}

\* The statuses the server may answer a content request with.
FileStatuses(owner, repo, p) ==
  IF IsAcmeWidgets(owner, repo) /\ p \in RemoteFiles THEN {200, 500} ELSE {500}

StatusText(status) ==
  CASE status = 200 -> "OK"
    [] status = 401 -> "Unauthorized"
    [] status = 404 -> "Not Found"
    [] OTHER        -> "Internal Server Error"

(***************************************************************************)
(* fetchDirectoryContents                                                  *)
(***************************************************************************)
\* lines 95-103: the message of the Error thrown for a non-ok response
ListErrorMessage(status) ==
  IF status = 401 THEN <<"Invalid GitHub token or insufficient permissions">>
  ELSE IF status = 404 THEN <<"Repository or directory not found">>
  ELSE <<"GitHub API error: ", status, " - ", StatusText(status)>>

\* lines 109-114
Descriptor(item) ==
  [path |-> item.path, sha |-> item.sha, name |-> item.name, size |-> item.size]

ReplaceTop(st, items) == [st EXCEPT ![Len(st)].items = items]

\* lines 107-120: run the for-of loops of the suspended calls, innermost
\* first, until one of them awaits the listing of a subdirectory (then the
\* new call is on top of the stack) or the outermost call returns (then the
\* stack is empty).  A frame is [path, items]: the directory of the call
\* and the entries its loop has not visited yet.
RECURSIVE Walk(_, _)
WalkKeepsOtherTypes(st, acc) ==
  IF st = <<>> THEN [stack |-> <<>>, allFiles |-> acc]
  ELSE LET items == st[Len(st)].items
       IN  IF items = <<>> THEN Walk(SubSeq(st, 1, Len(st) - 1), acc)
           ELSE LET item == Head(items)
                    rest == ReplaceTop(st, Tail(items))
                IN  IF item.type = "dir"
                    THEN [stack |-> Append(rest, [path |-> item.path, items |-> <<>>]),
                          allFiles |-> acc]
                    ELSE Walk(rest, Append(acc, Descriptor(item)))

WalkNoRecursion(st, acc) ==
  IF st = <<>> THEN [stack |-> <<>>, allFiles |-> acc]
  ELSE LET items == st[Len(st)].items
       IN  IF items = <<>> THEN Walk(SubSeq(st, 1, Len(st) - 1), acc)
           ELSE LET item == Head(items)
                    rest == ReplaceTop(st, Tail(items))
                IN  IF item.type = "file" THEN Walk(rest, Append(acc, Descriptor(item)))
                    ELSE Walk(rest, acc)

Walk(st, acc) ==
  LET Run(s, a) ==
        IF s = <<>> THEN [stack |-> <<>>, allFiles |-> a]
        ELSE LET items == s[Len(s)].items
             IN  IF items = <<>> THEN Walk(SubSeq(s, 1, Len(s) - 1), a)
                 ELSE LET item == Head(items)
                          rest == ReplaceTop(s, Tail(items))
                      IN  IF item.type = "file" THEN Walk(rest, Append(a, Descriptor(item)))
                          ELSE IF item.type = "dir"
                          THEN [stack |-> Append(rest, [path |-> item.path, items |-> <<>>]),
                                allFiles |-> a]
                          ELSE Walk(rest, a)
  \* The arguments are values of a set, so that each is computed once.
  IN  CHOOSE r \in { Run(c.st, c.acc) : c \in { [st |-> st, acc |-> acc] } } : TRUE

(***************************************************************************)
(* createAndDownloadZip                                                    *)
(***************************************************************************)
HasContentAlways(content) == TRUE

\* line 161: if (fileData.content)
HasContent(content) == content # <<>>

\* atob on one 4-character group
Atob4(g) ==
  CASE g = "QUJD" -> <<65, 66, 67>>
    [] g = "RA==" -> <<68>>
    [] g = "QQ==" -> <<65>>
    [] g = "Qg==" -> <<66>>
    [] OTHER      -> <<>>

RECURSIVE Atob(_)
Atob(groups) == IF groups = <<>> THEN <<>> ELSE Atob4(Head(groups)) \o Atob(Tail(groups))

IsNotNewline(c) == c # "\n"

\* lines 162-166: atob(content.replace(/\n/g, '')) copied into a Uint8Array
Decode(content) == Atob(SelectSeq(content, IsNotNewline))

\* line 168: zip.file(path, bytes) replaces an entry of the same name
ZipFile(z, path, bytes) ==
  { e \in z : e.path # path } \cup { [path |-> path, bytes |-> bytes] }

\* zipBlob.size: JSZip writes a 22-byte end-of-central-directory record and,
\* for every entry, a local header (30 bytes) and a central header (46 bytes)
\* besides the name and the data.
ZipBlobSize(z) == 22 + 76 * Cardinality(z)

\* line 145
DownloadingText(name, k, n) == <<"Downloading ", name, " (", k, "/", n, ")...">>

(***************************************************************************)
(* Network requests                                                        *)
(***************************************************************************)
NoTarget == [ok |-> FALSE, owner |-> <<>>, repo |-> <<>>, path |-> <<>>, isRepo |-> FALSE]

\* lines 86-93 and 147-153: a request to the contents API carries the
\* current value of DIR_DL_TOKEN.  status 0: no response yet.
ApiRequest(kind, t, p) ==
  [kind |-> kind, owner |-> t.owner, repo |-> t.repo, path |-> p,
   token |-> DIR_DL_TOKEN, status |-> 0]

\* lines 125-127: the script element that loads JSZip
ScriptRequest ==
  [kind |-> "script", owner |-> <<>>, repo |-> <<>>, path |-> <<"jszip.min.js">>,
   token |-> <<>>, status |-> 0]

Complete(reqs, status) == [reqs EXCEPT ![Len(reqs)].status = status]

(***************************************************************************)
(* The page                                                                *)
(***************************************************************************)
runVars == <<url, target, stack, allFiles, files, idx, zip, successfulDownloads,
             downloadedCount, folderName, generated, saved, requests, listed>>

\* line 5: the condition of the startup loop
LoopCondition(valid, tok) == ~valid /\ tok = <<>>

Init ==
  /\ storage \in StoredTokens
  /\ DIR_DL_TOKEN = LoadToken(storage)
  /\ isTokenValid = FALSE
  /\ phase = IF LoopCondition(FALSE, LoadToken(storage)) THEN "prompt" ELSE "ready"
  /\ resp = <<>>
  /\ alerted = FALSE
  /\ sessionToken = LoadToken(storage)
  /\ reloadPending = FALSE
  /\ logText = [text |-> <<>>, type |-> "info"]
  /\ disabled = FALSE
  /\ pc = "idle"
  /\ url = <<>>
  /\ target = NoTarget
  /\ stack = <<>>
  /\ allFiles = <<>>
  /\ files = <<>>
  /\ idx = 0
  /\ zip = {}
  /\ successfulDownloads = 0
  /\ downloadedCount = 0
  /\ folderName = <<>>
  /\ JSZipLoaded = FALSE
  /\ generated = FALSE
  /\ saved = <<>>
  /\ requests = <<>>
  /\ listed = <<>>

\* lines 5-15: one iteration of the startup loop
Prompt ==
  /\ phase = "prompt"
  /\ \E r \in PromptInputs :
       /\ resp' = r
       /\ IF TokenRejected(r)
          THEN /\ alerted' = TRUE
               /\ UNCHANGED <<DIR_DL_TOKEN, storage, isTokenValid, phase, sessionToken>>
          ELSE /\ alerted' = FALSE
               /\ DIR_DL_TOKEN' = r
               /\ storage' = r
               /\ isTokenValid' = TRUE
               /\ phase' = IF LoopCondition(TRUE, r) THEN "prompt" ELSE "ready"
               /\ sessionToken' = r
  /\ UNCHANGED <<reloadPending, logText, disabled, pc, JSZipLoaded>>
  /\ UNCHANGED runVars

FinallyOnlyOnSuccess == disabled' = (logText'.type # "success")

\* lines 58-60
Finally == disabled' = FALSE

\* lines 55-60: an error thrown inside the try block of downloadContent
Throw(message) ==
  /\ logText' = [text |-> <<"Download failed: ">> \o message, type |-> "error"]
  /\ Finally
  /\ pc' = "idle"

ResponseOkLax(status) == status \notin {401, 404}

\* response.ok
ResponseOk(status) == status \in 200..299

FileAtReversed(fs, i) == fs[Len(fs) + 1 - i]

\* line 143: the i-th file the for-of loop visits
FileAt(fs, i) == fs[i]

\* lines 135-153: create the archive and request the first file
StartLoopSkipsTheFiles(fs, reqs) ==
  /\ zip' = {}
  /\ downloadedCount' = 0
  /\ successfulDownloads' = 0
  /\ idx' = 1
  /\ logText' = [text |-> <<"Generating ZIP file with ", 0, " files...">>, type |-> "info"]
  /\ requests' = reqs
  /\ pc' = "awaitZip"

StartLoop(fs, reqs) ==
  /\ zip' = {}
  /\ downloadedCount' = 0
  /\ successfulDownloads' = 0
  /\ idx' = 1
  /\ logText' = [text |-> DownloadingText(FileAt(fs, 1).name, 1, Len(fs)), type |-> "info"]
  /\ requests' = Append(reqs, ApiRequest("content", target, FileAt(fs, 1).path))
  /\ pc' = "awaitFile"

DisableButtonForgotten == UNCHANGED disabled

\* line 40
DisableButton == disabled' = TRUE

SharedAccumulator(acc) == acc

\* line 85: the default value of the parameter allFiles, a new array for
\* every call that omits it
FreshAccumulator(acc) == <<>>

\* lines 27-42: the click on the download button, up to the first await
Click ==
  /\ phase = "ready"
  /\ ~disabled
  /\ \E u \in Inputs :
       LET t == parseGitHubUrl(u)
       IN  /\ url' = u
           /\ stack' = IF u # <<>> /\ t.ok THEN <<[path |-> t.path, items |-> <<>>]>> ELSE <<>>
           /\ requests' = IF u # <<>> /\ t.ok
                          THEN <<ApiRequest("list", t, t.path)>> ELSE <<>>
           /\ target' = IF u # <<>> THEN t ELSE NoTarget
           /\ IF u = <<>>
              THEN /\ logText' = [text |-> <<"Please enter a GitHub repository or directory URL">>,
                                  type |-> "error"]
                   /\ UNCHANGED <<disabled, pc>>
              ELSE IF ~t.ok
              THEN Throw(<<InvalidUrlMessage>>)
              ELSE /\ logText' = [text |-> <<"Fetching directory contents...">>, type |-> "info"]
                   /\ DisableButton
                   /\ pc' = "awaitList"
  /\ allFiles' = FreshAccumulator(allFiles)
  /\ files' = <<>>
  /\ idx' = 0
  /\ zip' = {}
  /\ successfulDownloads' = 0
  /\ downloadedCount' = 0
  /\ folderName' = <<>>
  /\ generated' = FALSE
  /\ saved' = <<>>
  /\ UNCHANGED <<JSZipLoaded, listed>>
  /\ UNCHANGED tokenVars

NoFilesNeverTested(fs) == FALSE

\* line 44
NoFiles(fs) == Len(fs) = 0

\* lines 44-51 and 123-128: fetchDirectoryContents has returned fs
ListingDone(fs, reqs) ==
  /\ stack' = <<>>
  /\ allFiles' = fs
  /\ listed' = <<[owner |-> target.owner, repo |-> target.repo, path |-> target.path,
                  files |-> fs]>>
  /\ IF NoFiles(fs)
     THEN /\ logText' = [text |-> <<"No files found in the directory">>, type |-> "error"]
          /\ Finally
          /\ pc' = "idle"
          /\ requests' = reqs
          /\ UNCHANGED <<files, idx, zip, successfulDownloads, downloadedCount, folderName>>
     ELSE /\ files' = fs
          /\ folderName' = FolderName(target)
          /\ UNCHANGED disabled
          /\ IF JSZipLoaded
             THEN StartLoop(fs, reqs)
             ELSE /\ logText' = [text |-> <<"Found ", Len(fs), " files. Creating ZIP...">>,
                                 type |-> "info"]
                  /\ requests' = Append(reqs, ScriptRequest)
                  /\ pc' = "awaitLib"
                  /\ UNCHANGED <<idx, zip, successfulDownloads, downloadedCount>>

\* lines 88-120: the response to the listing request of the innermost call
ListResponse ==
  /\ pc = "awaitList"
  /\ LET dir == stack[Len(stack)].path
     IN  \E status \in ListStatuses(target.owner, target.repo, dir) :
           LET reqs == Complete(requests, status)
           IN  IF ~ResponseOk(status)
               THEN /\ Throw(ListErrorMessage(status))
                    /\ requests' = reqs
                    /\ stack' = <<>>
                    /\ allFiles' = <<>>
                    /\ UNCHANGED <<files, idx, zip, successfulDownloads, downloadedCount,
                                   folderName, listed>>
               ELSE IF dir \in RemoteFiles
               THEN /\ Throw(<<"contents is not iterable">>)
                    /\ requests' = reqs
                    /\ stack' = <<>>
                    /\ allFiles' = <<>>
                    /\ UNCHANGED <<files, idx, zip, successfulDownloads, downloadedCount,
                                   folderName, listed>>
               ELSE LET w == Walk(ReplaceTop(stack, RemoteListing(dir)), allFiles)
                    IN  IF w.stack # <<>>
                        THEN /\ stack' = w.stack
                             /\ allFiles' = w.allFiles
                             /\ requests' = Append(reqs,
                                  ApiRequest("list", target, w.stack[Len(w.stack)].path))
                             /\ UNCHANGED <<logText, disabled, pc, files, idx, zip,
                                            successfulDownloads, downloadedCount, folderName,
                                            listed>>
                        ELSE ListingDone(w.allFiles, reqs)
  /\ UNCHANGED <<url, target, generated, saved, JSZipLoaded>>
  /\ UNCHANGED tokenVars

\* lines 129-132: the script element fires load or error
LibLoaded ==
  /\ pc = "awaitLib"
  /\ \E loaded \in BOOLEAN :
       IF loaded
       THEN /\ JSZipLoaded' = TRUE
            /\ StartLoop(files, Complete(requests, 200))
            /\ UNCHANGED disabled
       ELSE /\ Throw(<<"Failed to load JSZip library">>)
            /\ requests' = Complete(requests, 404)
            /\ UNCHANGED <<JSZipLoaded, idx, zip, successfulDownloads, downloadedCount>>
  /\ UNCHANGED <<url, target, stack, allFiles, files, folderName, generated, saved, listed>>
  /\ UNCHANGED tokenVars

NothingDownloadedByCount(succ, count) == count = 0

\* line 181
NothingDownloaded(succ, count) == succ = 0

\* lines 143-145 and 179-192: the next iteration of the loop, or its end
NextFile(reqs, z, succ, count) ==
  /\ zip' = z
  /\ successfulDownloads' = succ
  /\ downloadedCount' = count
  /\ IF idx < Len(files)
     THEN /\ idx' = idx + 1
          /\ logText' = [text |-> DownloadingText(FileAt(files, idx + 1).name, count + 1,
                                                  Len(files)), type |-> "info"]
          /\ requests' = Append(reqs, ApiRequest("content", target, FileAt(files, idx + 1).path))
          /\ UNCHANGED <<disabled, pc, generated>>
     ELSE /\ requests' = reqs
          /\ UNCHANGED idx
          /\ IF NothingDownloaded(succ, count)
             THEN /\ Throw(<<"No files were successfully downloaded">>)
                  /\ UNCHANGED generated
             ELSE /\ logText' = [text |-> <<"Generating ZIP file with ", succ, " files...">>,
                                 type |-> "info"]
                  /\ generated' = TRUE
                  /\ pc' = "awaitZip"
                  /\ UNCHANGED disabled

CatchFileRethrow(reqs) ==
  /\ Throw(<<"Failed to fetch ", FileAt(files, idx).name, ": ", reqs[Len(reqs)].status>>)
  /\ requests' = reqs
  /\ UNCHANGED <<zip, successfulDownloads, downloadedCount, idx, generated>>

\* lines 176-178: the catch clause inside the loop
CatchFile(reqs) == NextFile(reqs, zip, successfulDownloads, downloadedCount)

\* lines 148-178: the response to the content request of the current file
FileResponse ==
  /\ pc = "awaitFile"
  /\ LET file == FileAt(files, idx)
     IN  \E status \in FileStatuses(target.owner, target.repo, file.path) :
           LET reqs    == Complete(requests, status)
               content == RemoteContent(file.path)
           IN  IF ~ResponseOk(status)
               THEN CatchFile(reqs)
               ELSE IF HasContent(content)
               THEN NextFile(reqs, ZipFile(zip, file.path, Decode(content)),
                             successfulDownloads + 1, downloadedCount + 1)
               ELSE NextFile(reqs, zip, successfulDownloads, downloadedCount + 1)
  /\ UNCHANGED <<url, target, stack, allFiles, files, folderName, saved, JSZipLoaded,
                 listed>>
  /\ UNCHANGED tokenVars

ZipGeneratedNeverResumes ==
  /\ pc = "awaitZip"
  /\ UNCHANGED vars

\* lines 186-207 and 53-60: generateAsync has resolved
ZipGenerated ==
  /\ pc = "awaitZip"
  /\ IF ZipBlobSize(zip) = 0
     THEN /\ Throw(<<"Generated ZIP file is empty">>)
          /\ UNCHANGED saved
     ELSE /\ saved' = Append(saved, folderName \o <<".zip">>)
          /\ logText' = [text |-> <<"Download completed successfully!">>, type |-> "success"]
          /\ Finally
          /\ pc' = "idle"
  /\ UNCHANGED <<url, target, stack, allFiles, files, idx, zip, successfulDownloads,
                 downloadedCount, folderName, generated, requests, JSZipLoaded, listed>>
  /\ UNCHANGED tokenVars

RemoveItemNoop(st) == st

\* line 218: localStorage.removeItem("DIR_DL_TOKEN")
RemoveItem(st) == <<>>

\* lines 216-220: the click on the reset button.  location.reload() starts
\* a navigation; the page keeps running until the browser tears it down.
Reset ==
  /\ phase = "ready"
  /\ DIR_DL_TOKEN' = <<>>
  /\ storage' = RemoveItem(storage)
  /\ reloadPending' = TRUE
  /\ UNCHANGED <<isTokenValid, phase, resp, alerted, sessionToken>>
  /\ UNCHANGED <<logText, disabled, pc, JSZipLoaded>>
  /\ UNCHANGED runVars

\* The navigation started by location.reload() commits: the script runs
\* again from line 1 in a new page; only localStorage survives.
Reload ==
  /\ reloadPending
  /\ UNCHANGED storage
  /\ DIR_DL_TOKEN' = LoadToken(storage)
  /\ isTokenValid' = FALSE
  /\ phase' = IF LoopCondition(FALSE, LoadToken(storage)) THEN "prompt" ELSE "ready"
  /\ resp' = <<>>
  /\ alerted' = FALSE
  /\ sessionToken' = LoadToken(storage)
  /\ reloadPending' = FALSE
  /\ logText' = [text |-> <<>>, type |-> "info"]
  /\ disabled' = FALSE
  /\ pc' = "idle"
  /\ url' = <<>>
  /\ target' = NoTarget
  /\ stack' = <<>>
  /\ allFiles' = <<>>
  /\ files' = <<>>
  /\ idx' = 0
  /\ zip' = {}
  /\ successfulDownloads' = 0
  /\ downloadedCount' = 0
  /\ folderName' = <<>>
  /\ JSZipLoaded' = FALSE
  /\ generated' = FALSE
  /\ saved' = <<>>
  /\ requests' = <<>>
  /\ listed' = <<>>

Next ==
  \/ Prompt
  \/ Click
  \/ ListResponse
  \/ LibLoaded
  \/ FileResponse
  \/ ZipGenerated
  \/ Reset
  \/ Reload

Spec == Init /\ [][Next]_vars

\* Every awaited response arrives: the continuation of each await of
\* downloadContent eventually runs.  The user's clicks and prompt answers and
\* the teardown of the page are not forced.
FairSpec ==
  /\ Spec
  /\ WF_vars(ListResponse)
  /\ WF_vars(LibLoaded)
  /\ WF_vars(FileResponse)
  /\ WF_vars(ZipGenerated)

(***************************************************************************)
(* Properties                                                              *)
(***************************************************************************)
IsContent(r) == r.kind = "content"
IsList(r) == r.kind = "list"
ContentRequests == SelectSeq(requests, IsContent)
ZipPaths == { e.path : e \in zip }
Answered(r) == r.status # 0
Failed(r) == r.status # 0 /\ r.status \notin 200..299
ErrorLog(message) == [text |-> <<"Download failed: ">> \o message, type |-> "error"]

\* The loop over files has run to its end: every listed file was requested
\* and answered.
LoopFinished ==
  /\ files # <<>>
  /\ Len(ContentRequests) = Len(files)
  /\ \A k \in 1..Len(ContentRequests) : Answered(ContentRequests[k])

\* No content request brought something to insert.
NothingFetched ==
  \A k \in 1..Len(ContentRequests) :
    \/ ~Answered(ContentRequests[k])
    \/ Failed(ContentRequests[k])
    \/ RemoteContent(ContentRequests[k].path) = <<>>

\* C1: a non-empty listing of which no file was fetched ends in the error
\* "No files were successfully downloaded"; as long as nothing was fetched,
\* generateAsync is not called and nothing is saved.
C1_NoFilesDownloaded ==
  /\ NothingFetched => ~generated /\ saved = <<>> /\ pc # "awaitZip"
  /\ LoopFinished /\ NothingFetched =>
       /\ pc = "idle"
       /\ logText = ErrorLog(<<"No files were successfully downloaded">>)

C1_Witness ==
  /\ LoopFinished /\ NothingFetched
  /\ Len(files) >= 2
  /\ \E k \in 1..Len(ContentRequests) : ContentRequests[k].status = 200
  /\ \E k \in 1..Len(ContentRequests) : Failed(ContentRequests[k])

\* C2: after a successful run the archive holds exactly one entry for every
\* file whose content request got a success response, empty payloads
\* included, under the file's path, and no other entry.
C2_ArchiveHoldsEveryFetchedFile ==
  logText.type = "success" =>
    LET fetched == { ContentRequests[k].path :
                       k \in { j \in 1..Len(ContentRequests) :
                                 ContentRequests[j].status \in 200..299 } }
    IN  /\ ZipPaths = fetched
        /\ Cardinality(zip) = Cardinality(fetched)

\* C3: a failed content request does not abort the run: the next file is
\* still requested, the failed file is not in the archive, and the run ends
\* in success when some other file was archived.
C3_FileFailureDoesNotAbort ==
  \A k \in 1..Len(ContentRequests) :
    Failed(ContentRequests[k]) =>
      /\ ContentRequests[k].path \notin ZipPaths
      /\ k < Len(files) => Len(ContentRequests) > k
      /\ pc = "idle" => Len(ContentRequests) = Len(files)
      /\ pc = "idle" /\ zip # {} =>
           /\ logText = [text |-> <<"Download completed successfully!">>, type |-> "success"]
           /\ Len(saved) = 1

C3_Witness ==
  /\ pc = "idle"
  /\ logText.type = "success"
  /\ Len(ContentRequests) >= 3
  /\ Failed(ContentRequests[1])
  /\ Failed(ContentRequests[Len(ContentRequests)])

\* C4: a listing request with a non-success response is the last request of
\* its run: the run has ended with the error of that status, nothing was
\* requested after it, no archive was generated or saved and no descriptor
\* is kept.
C4_ListingFailureAborts ==
  \A i \in 1..Len(requests) :
    IsList(requests[i]) /\ Failed(requests[i]) =>
      /\ i = Len(requests)
      /\ pc = "idle"
      /\ logText.type = "error"
      /\ logText.text[1] = "Download failed: "
      /\ IF requests[i].status = 401
         THEN logText.text[2] = "Invalid GitHub token or insufficient permissions"
         ELSE IF requests[i].status = 404
         THEN logText.text[2] = "Repository or directory not found"
         ELSE logText.text[2] = "GitHub API error: " /\ logText.text[3] = requests[i].status
      /\ ContentRequests = <<>>
      /\ ~generated /\ saved = <<>>
      /\ files = <<>> /\ allFiles = <<>> /\ zip = {}

C4_Witness ==
  /\ Len(requests) = 3
  /\ requests[1].status = 200 /\ requests[2].status = 200
  /\ IsList(requests[3]) /\ requests[3].status = 500
  /\ pc = "idle"

NeitherPattern(u) ==
  LET str == StripTrailingSlash(u)
  IN  \A i \in 1..Len(str) : ~RepoMatchAt(str, i) /\ ~DirMatchAt(str, i)

\* C5: an input that matches neither pattern ends the invocation with the
\* invalid-URL error and without any network request.
C5_InvalidUrlNoRequest ==
  url # <<>> /\ NeitherPattern(url) =>
    /\ pc = "idle"
    /\ logText = ErrorLog(<<InvalidUrlMessage>>)
    /\ requests = <<>>

C5_Witness ==
  /\ url = Base \o <<"/", "blob", "/", "main", "/", "README">>
  /\ logText = ErrorLog(<<InvalidUrlMessage>>)

\* C6: when no invocation is in progress the download button is enabled.
C6_ButtonEnabledWhenIdle == pc = "idle" => ~disabled

C6_Witness ==
  /\ pc = "idle" /\ ~disabled
  /\ logText = ErrorLog(<<"Failed to load JSZip library">>)

\* C7: a prompt answer that is absent or not longer than 10 characters is
\* not stored and the loop prompts again; a stored token is longer than 10.
C7_ShortTokenRejected ==
  /\ [](storage # <<>> => Len(storage[1]) > 10)
  /\ [][phase = "prompt" /\ (resp' = <<>> \/ Len(resp'[1]) <= 10) =>
          alerted' /\ phase' = "prompt" /\ storage' = storage /\ DIR_DL_TOKEN' = <<>>]_vars

C7_Witness ==
  /\ alerted /\ resp = <<"0123456789">>
  /\ phase = "prompt" /\ storage = <<>>

\* C8: after a reset nothing is stored, and the page that replaces the
\* session starts in the prompt loop with no token; while it prompts no
\* download is started.
C8_ResetClearsAndPrompts ==
  /\ [](reloadPending => storage = <<>>)
  /\ [](phase = "prompt" => pc = "idle" /\ requests = <<>> /\ DIR_DL_TOKEN = <<>>)
  /\ [][reloadPending /\ ~reloadPending' => phase' = "prompt" /\ DIR_DL_TOKEN' = <<>>]_vars

C8_Witness ==
  /\ reloadPending /\ storage = <<>>
  /\ sessionToken = <<"ghp_stored01">>
  /\ pc = "awaitFile"

\* C9: at most one request is outstanding and it is the last one issued;
\* the content requests follow the order of the file list.
C9_OneAtATimeInOrder ==
  /\ \A i \in 1..Len(requests) : i < Len(requests) => Answered(requests[i])
  /\ Len(ContentRequests) <= Len(files)
  /\ \A k \in 1..Len(ContentRequests) : ContentRequests[k].path = files[k].path
  /\ \A i, j \in 1..Len(requests) :
       IsList(requests[i]) /\ IsContent(requests[j]) => i < j

C9_Witness ==
  /\ Len(ContentRequests) = 4
  /\ ~Answered(requests[Len(requests)])

\* C10: every request to the contents API carries the token the session
\* started with.
C10_TokenImmutable ==
  \A i \in 1..Len(requests) :
    requests[i].kind \in {"list", "content"} => requests[i].token = sessionToken

\* The entries of the remote directory p of a given type.
EntriesOfType(p, t) ==
  { RemoteListing(p)[i] : i \in { j \in 1..Len(RemoteListing(p)) : RemoteListing(p)[j].type = t } }

\* The subdirectories reachable from p through entries of type "dir".
RECURSIVE DirsUnder(_)
DirsUnder(p) ==
  LET sub == { e.path : e \in EntriesOfType(p, "dir") }
  IN  sub \cup UNION { DirsUnder(q) : q \in sub }

\* The entries of type "file" of p and of the directories reachable from p.
FileEntriesUnder(p) ==
  UNION { EntriesOfType(q, "file") : q \in {p} \cup DirsUnder(p) }

ListRequests == SelectSeq(requests, IsList)

\* fetchDirectoryContents has returned to downloadContent and every listing
\* request of the run got a success response with an array.
ListingSucceeded ==
  /\ requests # <<>>
  /\ stack = <<>>
  /\ \A i \in 1..Len(ListRequests) : ListRequests[i].status = 200
  /\ logText # ErrorLog(<<"contents is not iterable">>)

\* C11: a listing on which every request succeeds returns exactly one
\* descriptor for every file entry reachable through directories, and no
\* descriptor for an entry of another type.
C11_ListingHoldsExactlyTheFiles ==
  ListingSucceeded =>
    /\ { allFiles[i] : i \in 1..Len(allFiles) } =
         { Descriptor(e) : e \in FileEntriesUnder(target.path) }
    /\ Len(allFiles) = Cardinality(FileEntriesUnder(target.path))

C11_Witness ==
  /\ ListingSucceeded
  /\ target.path = <<>>
  /\ Len(allFiles) = 4
  /\ Len(ListRequests) = 4

\* C13: a successful listing has issued one request for the target
\* directory and one for every subdirectory reachable under it.
C13_OneRequestPerDirectory ==
  ListingSucceeded =>
    /\ Len(ListRequests) = 1 + Cardinality(DirsUnder(target.path))
    /\ { ListRequests[i].path : i \in 1..Len(ListRequests) } =
         {target.path} \cup DirsUnder(target.path)

C13_Witness ==
  /\ ListingSucceeded
  /\ target.path = P_src
  /\ Len(ListRequests) = 2

\* A descriptor list under path/sha.
PathSha(fs) == [i \in 1..Len(fs) |-> <<fs[i].path, fs[i].sha>>]
SetOf(q) == { q[i] : i \in 1..Len(q) }

\* C12: when a listing returns and the previous listing of the session was
\* of the same owner, repo and path, both hold the same descriptors under
\* path/sha, and the second holds no more descriptors than the first.
C12_ListingIdempotent ==
  [][(/\ stack # <<>> /\ stack' = <<>> /\ ListingSucceeded'
      /\ listed # <<>>
      /\ listed[1].owner = target.owner /\ listed[1].repo = target.repo
      /\ listed[1].path = target.path)
     => /\ SetOf(PathSha(allFiles')) = SetOf(PathSha(listed[1].files))
        /\ Len(allFiles') = Len(listed[1].files)
        /\ listed' = <<[listed[1] EXCEPT !.files = allFiles']>>]_vars

\* The second of two listings of the whole repository waits for its last
\* response.
C12_Witness ==
  /\ pc = "awaitList"
  /\ Len(requests) = 4
  /\ ~Answered(requests[4])
  /\ target.path = <<>>
  /\ listed # <<>>
  /\ listed[1].owner = target.owner /\ listed[1].repo = target.repo
  /\ listed[1].path = <<>> /\ Len(listed[1].files) = 4

\* The atoms of a non-empty path that follow its last slash.
AfterLastSlash(path) ==
  LET n == Len(path)
      k == CHOOSE j \in 0..n :
             /\ j = 0 \/ path[j] = Slash
             /\ \A m \in (j + 1)..n : path[m] # Slash
  IN  SubSeq(path, k + 1, n)

\* C14: the archive is saved as <repo>.zip for a whole-repository target and
\* as <repo>-<last path segment>.zip for a subdirectory target, with "root"
\* for an empty path.
C14_ArchiveName ==
  saved # <<>> =>
    /\ Len(saved) = 1
    /\ saved[1] = IF target.isRepo THEN target.repo \o <<".zip">>
                  ELSE IF target.path = <<>> THEN target.repo \o <<"-", "root", ".zip">>
                  ELSE target.repo \o <<"-">> \o AfterLastSlash(target.path) \o <<".zip">>
    /\ url = Base => saved[1] = <<"widgets", ".zip">>
    /\ url = Base \o <<"/", "tree", "/", "main", "/", "src", "/", "utils">> =>
         saved[1] = <<"widgets", "-", "utils", ".zip">>
    /\ url = Base \o <<"/", "tree", "/", "main">> =>
         saved[1] = <<"widgets", "-", "root", ".zip">>

C14_Witness ==
  /\ saved = << <<"widgets", "-", "utils", ".zip">> >>
  /\ logText.type = "success"

SlashFree(q) == \A i \in 1..Len(q) : q[i] # Slash

\* The position of the host of a GitHub URL, 0 when there is none.
HostAt(v) ==
  LET H == { i \in 1..Len(v) : v[i] = "github.com" }
  IN  IF H = {} THEN 0 ELSE CHOOSE i \in H : \A k \in H : i <= k

\* v has the shape .../<owner>/<repo>, the owner ending at a.
RepoShapeAt(v, a) ==
  LET h == HostAt(v)
  IN  /\ h > 0 /\ h + 2 <= a /\ a + 2 <= Len(v)
      /\ v[h + 1] = Slash /\ v[a + 1] = Slash
      /\ SlashFree(SubSeq(v, h + 2, a))
      /\ SlashFree(SubSeq(v, a + 2, Len(v)))

\* v has the shape .../<owner>/<repo>/tree/<branch>/<path>, the owner ending
\* at a, the repo at b and the branch at c.
DirShapeAt(v, a, b, c) ==
  LET h == HostAt(v)
  IN  /\ h > 0 /\ h + 2 <= a /\ a + 2 <= b /\ b + 4 <= c /\ c <= Len(v)
      /\ v[h + 1] = Slash /\ v[a + 1] = Slash /\ v[b + 1] = Slash
      /\ v[b + 2] = "tree" /\ v[b + 3] = Slash
      /\ SlashFree(SubSeq(v, h + 2, a))
      /\ SlashFree(SubSeq(v, a + 2, b))
      /\ SlashFree(SubSeq(v, b + 4, c))
      /\ c = Len(v) \/ v[c + 1] = Slash

\* C15: an input of the shape .../<owner>/<repo> is parsed to that owner
\* and repo with an empty path and isRepo true; an input of the shape
\* .../<owner>/<repo>/tree/<branch>/<path> is parsed to that owner and repo
\* with isRepo false and the path that follows the branch.
C15_ParserYieldsTheTargetOfTheShape ==
  url # <<>> =>
    LET v == StripTrailingSlash(url)
        h == HostAt(v)
    IN  /\ \A a \in 1..Len(v) :
             RepoShapeAt(v, a) =>
               target = [ok |-> TRUE, owner |-> SubSeq(v, h + 2, a),
                         repo |-> SubSeq(v, a + 2, Len(v)), path |-> <<>>,
                         isRepo |-> TRUE]
        /\ \A a, b, c \in 1..Len(v) :
             DirShapeAt(v, a, b, c) =>
               target = [ok |-> TRUE, owner |-> SubSeq(v, h + 2, a),
                         repo |-> SubSeq(v, a + 2, b),
                         path |-> SubSeq(v, c + 2, Len(v)), isRepo |-> FALSE]

\* The stages of one invocation in their order.
StageOf(p) ==
  CASE p = "awaitList" -> 1
    [] p = "awaitLib"  -> 2
    [] p = "awaitFile" -> 3
    [] p = "awaitZip"  -> 4
    [] OTHER           -> 0

\* C16: an invocation goes through listing, fetching and archiving in this
\* order and leaves them only forward or to the end: every listing request
\* precedes every content request, the archive is generated only after
\* every listed file was requested and answered, it is saved only after it
\* was generated, and the final success status is shown only after the
\* save of a non-empty archive.
C16_StagesInOrder ==
  /\ [](/\ pc = "awaitList" => ContentRequests = <<>> /\ files = <<>> /\ ~generated
        /\ pc = "awaitLib" => ContentRequests = <<>> /\ stack = <<>> /\ ~generated
        /\ pc = "awaitFile" => stack = <<>> /\ ~generated /\ saved = <<>>
                               /\ ~Answered(requests[Len(requests)])
        /\ pc = "awaitZip" => generated /\ saved = <<>>
        /\ \A i, j \in 1..Len(requests) :
             IsContent(requests[i]) /\ IsList(requests[j]) => j < i
        /\ generated => LoopFinished
        /\ saved # <<>> => generated /\ zip # {} /\ pc = "idle"
        /\ logText = [text |-> <<"Download completed successfully!">>, type |-> "success"] =>
             Len(saved) = 1 /\ zip # {} /\ pc = "idle")
  /\ [][pc # "idle" /\ pc' # "idle" => StageOf(pc) <= StageOf(pc')]_vars
  /\ [][pc = "idle" /\ pc' # "idle" => pc' = "awaitList"]_vars

C16_Witness ==
  /\ logText = [text |-> <<"Download completed successfully!">>, type |-> "success"]
  /\ Len(ListRequests) = 4
  /\ Len(ContentRequests) = 4
  /\ Cardinality(zip) = 2

\* C17: while an invocation is in progress the download button is disabled,
\* and nothing but the teardown of the page replaces the invocation: its
\* input and target stay and its requests are only answered and extended.
C17_OneDownloadAtATime ==
  /\ [](pc # "idle" => disabled)
  /\ [][pc # "idle" /\ ~(reloadPending /\ ~reloadPending') =>
          /\ url' = url /\ target' = target
          /\ Len(requests') >= Len(requests)
          /\ \A i \in 1..(Len(requests) - 1) : requests'[i] = requests[i]]_vars

C17_Witness ==
  /\ pc = "awaitFile" /\ disabled
  /\ Len(ContentRequests) = 3
  /\ ~Answered(requests[Len(requests)])

\* C18: a listing that succeeds and finds no file ends the invocation with
\* the error status "No files found in the directory": no content request,
\* no load of the archive library, no archive, and the button enabled.
C18_EmptyListing ==
  ListingSucceeded /\ FileEntriesUnder(target.path) = {} =>
    /\ logText = [text |-> <<"No files found in the directory">>, type |-> "error"]
    /\ pc = "idle"
    /\ ~disabled
    /\ \A i \in 1..Len(requests) : IsList(requests[i])
    /\ files = <<>> /\ zip = {}
    /\ ~generated /\ saved = <<>>

C18_Witness ==
  /\ ListingSucceeded
  /\ target.path = P_docs
  /\ RemoteListing(P_docs) # <<>>
  /\ logText = [text |-> <<"No files found in the directory">>, type |-> "error"]

\* The invocation has ended with a final status and the button is enabled.
Terminated ==
  /\ pc = "idle"
  /\ ~disabled
  /\ logText.type \in {"error", "success"}

\* The page was torn down by the reset: its requests were dropped without a
\* response and a new page has started.
TornDown ==
  /\ pc = "idle"
  /\ ~disabled
  /\ requests = <<>>
  /\ logText = [text |-> <<>>, type |-> "info"]

\* C19: when every awaited response arrives, an invocation in progress
\* eventually ends with the success status or an error status and the
\* button enabled, unless the page is torn down first.
C19_InvocationTerminates == (pc # "idle") ~> (Terminated \/ TornDown)

C19_Witness ==
  /\ Terminated
  /\ logText.type = "success"
  /\ Len(ListRequests) = 4
  /\ Len(ContentRequests) = 4
  /\ reloadPending

====
